---- MODULE Spec2Model ----
(***************************************************************************)
(* The fund form pages: NewFundPage (create flow) and EditFundPage (edit   *)
(* flow).  Each page owns the form state, the error state and the loading  *)
(* flag, validates on submit and calls fundApi.create / fundApi.update.    *)
(*                                                                         *)
(* JavaScript strings are sequences of one-character strings, so that      *)
(* trim, the /^\d{4}$/ test, parseInt and String(number) are computed      *)
(* character by character.  JavaScript numbers are records that tell an    *)
(* integer from NaN and from undefined.                                    *)
(***************************************************************************)
EXTENDS Integers, Sequences, FiniteSets, TLC

VARIABLES mode, fundId, query, fund, fundOf, form, errors, loading, pending,
          nSubmits, nCalls, navigated, alerts, lastResult

vars == <<mode, fundId, query, fund, fundOf, form, errors, loading, pending,
          nSubmits, nCalls, navigated, alerts, lastResult>>

\* Number of submit events one form instance receives in a run.
MaxSubmits == 2

Fields == {"name", "gp_name", "fund_type", "vintage_year"}

----------------------------------------------------------------------------
(* JavaScript values *)

WhiteSpace == {" "}
Digits == {"0", "1", "2", "3", "4", "5", "6", "7", "8", "9"}

DigitVal(c) ==
  CASE c = "0" -> 0 [] c = "1" -> 1 [] c = "2" -> 2 [] c = "3" -> 3
    [] c = "4" -> 4 [] c = "5" -> 5 [] c = "6" -> 6 [] c = "7" -> 7
    [] c = "8" -> 8 [] c = "9" -> 9

DigitChar(d) ==
  CASE d = 0 -> "0" [] d = 1 -> "1" [] d = 2 -> "2" [] d = 3 -> "3"
    [] d = 4 -> "4" [] d = 5 -> "5" [] d = 6 -> "6" [] d = 7 -> "7"
    [] d = 8 -> "8" [] d = 9 -> "9"

\* The value undefined where a string is expected (fund?.name with no fund).
\* It is no character sequence a user or the API can produce.
Undefined == <<"undefined">>

\* A JavaScript number: an integer, NaN, or undefined where a number is expected.
Num(n) == [tag |-> "int", val |-> n]
NaN == [tag |-> "NaN", val |-> 0]
UndefinedNum == [tag |-> "undefined", val |-> 0]

\* Truthiness of a string-or-undefined value and of a number.
Truthy(s) == s # <<>> /\ s # Undefined
TruthyNum(x) == x.tag = "int" /\ x.val # 0

\* a || b on string-or-undefined values.
OrElse(a, b) == IF Truthy(a) THEN a ELSE b

RECURSIVE trimStart(_)
trimStart(s) ==
  IF s = <<>> THEN s
  ELSE IF Head(s) \in WhiteSpace THEN trimStart(Tail(s)) ELSE s

RECURSIVE trimEnd(_)
trimEnd(s) ==
  IF s = <<>> THEN s
  ELSE IF s[Len(s)] \in WhiteSpace THEN trimEnd(SubSeq(s, 1, Len(s) - 1)) ELSE s

\* String.prototype.trim
trim(s) == trimEnd(trimStart(s))

\* x?.trim()
optTrim(s) == IF s = Undefined THEN Undefined ELSE trim(s)

\* The pattern testing the length alone: /^.{4}$/.test(s)
testFourAny(s) == Len(s) = 4

\* /^\d{4}$/.test(s)
testFourDigits(s) == Len(s) = 4 /\ \A i \in 1..4 : s[i] \in Digits

\* The longest prefix of s made of digits.
RECURSIVE digitPrefix(_)
digitPrefix(s) ==
  IF s = <<>> \/ Head(s) \notin Digits THEN <<>>
  ELSE <<Head(s)>> \o digitPrefix(Tail(s))

RECURSIVE digitsValue(_)
digitsValue(d) ==
  IF d = <<>> THEN 0
  ELSE 10 * digitsValue(SubSeq(d, 1, Len(d) - 1)) + DigitVal(d[Len(d)])

\* parseInt(s): leading white space is skipped, an optional sign is read, then
\* the longest run of digits; NaN when there is no digit.
parseInt(s) ==
  LET t == trimStart(s)
      neg == t # <<>> /\ Head(t) = "-"
      u == IF t # <<>> /\ Head(t) \in {"-", "+"} THEN Tail(t) ELSE t
      d == digitPrefix(u)
  IN IF d = <<>> THEN NaN
     ELSE Num(IF neg THEN 0 - digitsValue(d) ELSE digitsValue(d))

RECURSIVE natToString(_)
natToString(n) ==
  IF n < 10 THEN <<DigitChar(n)>>
  ELSE natToString(n \div 10) \o <<DigitChar(n % 10)>>

\* String(x) of a number.
numToString(x) ==
  CASE x.tag = "NaN" -> <<"N", "a", "N">>
    [] x.tag = "undefined" -> <<"u", "n", "d", "e", "f", "i", "n", "e", "d">>
    [] x.val < 0 -> <<"-">> \o natToString(0 - x.val)
    [] OTHER -> natToString(x.val)

\* a < b on numbers: false when either side is NaN.
numLess(x, n) == x.tag = "int" /\ x.val < n

----------------------------------------------------------------------------
(* Inputs *)

\* Values a text input can hold: empty, blank, plain, padded with white space.
TextInputs == { <<>>, <<" ">>, <<"A">>, <<" ", "A", " ">> }

\* Values the vintage year input can hold.
YearInputs ==
  { <<>>,
    <<"9", "9">>,
    <<"a", "b", "c", "d">>,
    <<"2", "0", "2", "4", "5">>,
    <<"1", "8", "9", "9">>,
    <<"1", "9", "0", "0">>,
    <<" ", "2", "0", "2", "0", " ">> }

InputsOf(f) == IF f = "vintage_year" THEN YearInputs ELSE TextInputs

\* Identifiers an edit page can be opened for (params.id).
Ids == {1, 2}

\* Records fundApi.get can answer with.
RemoteFunds ==
  { [name |-> <<"R">>, gp_name |-> <<"G">>, fund_type |-> <<"V">>,
     vintage_year |-> Num(2020)],
    [name |-> <<" ", "R", " ">>, gp_name |-> <<"G">>, fund_type |-> <<"V">>,
     vintage_year |-> Num(2020)],
    [name |-> <<>>, gp_name |-> <<"G">>, fund_type |-> <<" ">>,
     vintage_year |-> Num(1900)],
    [name |-> <<"R">>, gp_name |-> <<"G">>, fund_type |-> <<"V">>,
     vintage_year |-> Num(1899)],
    [name |-> <<"R">>, gp_name |-> <<>>, fund_type |-> <<"V">>,
     vintage_year |-> Num(0)] }

----------------------------------------------------------------------------
(* The pages *)

EmptyForm ==
  [name |-> <<>>, gp_name |-> <<>>, fund_type |-> <<>>, vintage_year |-> <<>>]

NoErrors == [f \in {} |-> ""]

\* The object temp once the rules have run: msg[f] = "" when no rule set temp[f].
errorObject(msg) == [f \in {g \in Fields : msg[g] # ""} |-> msg[f]]

\* fund?.name, fund?.gp_name, fund?.fund_type
fundText(fnd, f) == IF fnd = <<>> THEN Undefined ELSE fnd[1][f]

\* fund?.vintage_year
fundYear(fnd) == IF fnd = <<>> THEN UndefinedNum ELSE fnd[1].vintage_year

\* NewFundPage.validate: the object handed to setErrors.
NewValidate(fm) ==
  errorObject(
    [f \in Fields |->
      CASE f = "name" ->
             IF ~Truthy(trim(fm.name)) THEN "Fund Name is required." ELSE ""
        [] f = "gp_name" ->
             IF ~Truthy(trim(fm.gp_name)) THEN "GP Name is required." ELSE ""
        [] f = "fund_type" ->
             IF ~Truthy(trim(fm.fund_type)) THEN "Fund Type is required." ELSE ""
        [] f = "vintage_year" ->
             IF ~Truthy(trim(fm.vintage_year)) THEN "Vintage Year is required."
             ELSE IF ~testFourDigits(fm.vintage_year)
                  THEN "Vintage Year must be a 4-digit year."
                  ELSE ""])

\* The payload NewFundPage.handleSubmit hands to fundApi.create.
NewPayload(fm) ==
  [name |-> fm.name,
   gp_name |-> fm.gp_name,
   fund_type |-> fm.fund_type,
   vintage_year |-> parseInt(fm.vintage_year)]

\* The object final of EditFundPage.validate.
EditFinal(fm, fnd) ==
  [name |-> OrElse(trim(fm.name), optTrim(fundText(fnd, "name"))),
   gp_name |-> OrElse(trim(fm.gp_name), optTrim(fundText(fnd, "gp_name"))),
   fund_type |-> OrElse(trim(fm.fund_type), optTrim(fundText(fnd, "fund_type"))),
   vintage_year |->
     OrElse(trim(fm.vintage_year),
            IF TruthyNum(fundYear(fnd)) THEN numToString(fundYear(fnd)) ELSE <<>>)]

\* The lower limit of the vintage year in the edit flow.
MinVintageYear == 1900

\* The limit taken as exclusive: parseInt(final.vintage_year) <= 1900.
yearTooEarlyInclusive(s) == numLess(parseInt(s), MinVintageYear + 1)

\* parseInt(final.vintage_year) < 1900
yearTooEarly(s) == numLess(parseInt(s), MinVintageYear)

\* EditFundPage.validate: the object handed to setErrors.
EditValidate(fm, fnd) ==
  LET final == EditFinal(fm, fnd)
  IN errorObject(
    [f \in Fields |->
      CASE f = "name" ->
             IF ~Truthy(final.name) THEN "Fund Name is required." ELSE ""
        [] f = "gp_name" ->
             IF ~Truthy(final.gp_name) THEN "GP Name is required." ELSE ""
        [] f = "fund_type" ->
             IF ~Truthy(final.fund_type) THEN "Fund Type is required." ELSE ""
        [] f = "vintage_year" ->
             IF ~Truthy(final.vintage_year) THEN "Vintage Year is required."
             ELSE IF ~testFourDigits(final.vintage_year)
                  THEN "Vintage Year must be a 4-digit year."
                  ELSE IF yearTooEarly(final.vintage_year)
                       THEN "Vintage Year must be greater than 1900."
                       ELSE ""])

\* The payload built with the trimmed remote values, as validate builds final.
EditPayloadTrimmedFallback(fm, fnd) ==
  [name |-> OrElse(trim(fm.name), optTrim(fundText(fnd, "name"))),
   gp_name |-> OrElse(trim(fm.gp_name), optTrim(fundText(fnd, "gp_name"))),
   fund_type |-> OrElse(trim(fm.fund_type), optTrim(fundText(fnd, "fund_type"))),
   vintage_year |->
     parseInt(OrElse(trim(fm.vintage_year), numToString(fundYear(fnd))))]

\* The object final of EditFundPage.handleSubmit, handed to fundApi.update.
EditPayload(fm, fnd) ==
  [name |-> OrElse(trim(fm.name), fundText(fnd, "name")),
   gp_name |-> OrElse(trim(fm.gp_name), fundText(fnd, "gp_name")),
   fund_type |-> OrElse(trim(fm.fund_type), fundText(fnd, "fund_type")),
   vintage_year |->
     parseInt(OrElse(trim(fm.vintage_year), numToString(fundYear(fnd))))]

\* The result of validate ignored.
validateOkAlways(temp) == TRUE

\* return Object.keys(temp).length === 0
validateOk(temp) == DOMAIN temp = {}

\* The validation pass of the page that is mounted.
validate(md, fm, fnd) ==
  IF md = "create" THEN NewValidate(fm) ELSE EditValidate(fm, fnd)

\* The API call of the page that is mounted.
apiCall(md, fm, fnd) ==
  IF md = "create" THEN [op |-> "create", payload |-> NewPayload(fm)]
  ELSE [op |-> "update", id |-> fundId, payload |-> EditPayload(fm, fnd)]

\* isLoading of the query: it has no data yet and its first fetch is under way.
isLoading == query = "loading"

\* error of the query.
isError == query = "error"

\* The form is on screen: always on the create page; on the edit page when the
\* query is neither loading nor failed.
FormRendered == mode = "create" \/ (~isLoading /\ ~isError)

\* The submit button without its disabled attribute.
SubmitAlwaysEnabled == TRUE

\* The submit button is enabled: disabled={loading}.
SubmitEnabled == ~loading

Init ==
  /\ mode \in {"create", "edit"}
  /\ fundId \in IF mode = "create" THEN {0} ELSE Ids
  /\ query = IF mode = "create" THEN "none" ELSE "loading"
  /\ fund = <<>>
  /\ fundOf = 0
  /\ form = EmptyForm
  /\ errors = NoErrors
  /\ loading = FALSE
  /\ pending = <<>>
  /\ nSubmits = 0
  /\ nCalls = 0
  /\ navigated = FALSE
  /\ alerts = 0
  /\ lastResult = "none"

\* The edit page is opened for an identifier, the page shown before having been
\* left with no call outstanding.  The page's own state is created afresh; the
\* query is the one cached under the key ['funds'], whatever identifier its
\* data was fetched for, and it is fetched again in the background.
MountEditPage ==
  /\ mode = "edit" /\ ~navigated /\ pending = <<>>
  /\ \E id \in Ids : fundId' = id
  /\ query' = IF fund = <<>> THEN "loading" ELSE "refetching"
  /\ form' = EmptyForm
  /\ errors' = NoErrors
  /\ loading' = FALSE
  /\ nSubmits' = 0
  /\ nCalls' = 0
  /\ alerts' = 0
  /\ lastResult' = "none"
  /\ UNCHANGED <<mode, fund, fundOf, pending, navigated>>

\* useQuery: fundApi.get(fundId) answers with a record.
FetchSuccess ==
  /\ mode = "edit" /\ query \in {"loading", "refetching"}
  /\ \E r \in RemoteFunds : fund' = <<r>>
  /\ fundOf' = fundId
  /\ query' = "success"
  /\ UNCHANGED <<mode, fundId, form, errors, loading, pending, nSubmits, nCalls,
                 navigated, alerts, lastResult>>

\* useQuery: fundApi.get(fundId) fails.
FetchError ==
  /\ mode = "edit" /\ query \in {"loading", "refetching"}
  /\ query' = "error"
  /\ UNCHANGED <<mode, fundId, fund, fundOf, form, errors, loading, pending,
                 nSubmits, nCalls, navigated, alerts, lastResult>>

\* handleChange spreading the initial form instead of the current one.
handleChangeStaleForm ==
  /\ FormRendered /\ ~navigated
  /\ \E f \in Fields : \E v \in InputsOf(f) :
       /\ v # form[f]
       /\ form' = [EmptyForm EXCEPT ![f] = v]
  /\ UNCHANGED <<mode, fundId, query, fund, fundOf, errors, loading, pending,
                 nSubmits, nCalls, navigated, alerts, lastResult>>

\* handleChange that also drops the error of the field it changes.
handleChangeClearingError ==
  /\ FormRendered /\ ~navigated
  /\ \E f \in Fields : \E v \in InputsOf(f) :
       /\ v # form[f]
       /\ form' = [form EXCEPT ![f] = v]
       /\ errors' = [g \in DOMAIN errors \ {f} |-> errors[g]]
  /\ UNCHANGED <<mode, fundId, query, fund, fundOf, loading, pending, nSubmits, nCalls,
                 navigated, alerts, lastResult>>

\* handleChange: a change event of one input.
handleChange ==
  /\ FormRendered /\ ~navigated
  /\ \E f \in Fields : \E v \in InputsOf(f) :
       /\ v # form[f]
       /\ form' = [form EXCEPT ![f] = v]
  /\ UNCHANGED <<mode, fundId, query, fund, fundOf, errors, loading, pending, nSubmits, nCalls,
                 navigated, alerts, lastResult>>

\* handleSubmit merging the new errors into the old ones:
\* setErrors({...errors, ...temp}).
handleSubmitMergingErrors ==
  /\ FormRendered /\ ~navigated /\ SubmitEnabled
  /\ nSubmits < MaxSubmits
  /\ nSubmits' = nSubmits + 1
  /\ LET temp == validate(mode, form, fund)
     IN /\ errors' = [f \in DOMAIN errors \cup DOMAIN temp |->
                        IF f \in DOMAIN temp THEN temp[f] ELSE errors[f]]
        /\ IF validateOk(temp)
           THEN /\ loading' = TRUE
                /\ pending' = Append(pending, apiCall(mode, form, fund))
                /\ nCalls' = nCalls + 1
           ELSE UNCHANGED <<loading, pending, nCalls>>
  /\ UNCHANGED <<mode, fundId, query, fund, fundOf, form, navigated, alerts,
                 lastResult>>

\* handleSubmit up to its await: a submit event of the form.
handleSubmit ==
  /\ FormRendered /\ ~navigated /\ SubmitEnabled
  /\ nSubmits < MaxSubmits
  /\ nSubmits' = nSubmits + 1
  /\ LET temp == validate(mode, form, fund)
     IN /\ errors' = temp
        /\ IF validateOk(temp)
           THEN /\ loading' = TRUE
                /\ pending' = Append(pending, apiCall(mode, form, fund))
                /\ nCalls' = nCalls + 1
           ELSE UNCHANGED <<loading, pending, nCalls>>
  /\ UNCHANGED <<mode, fundId, query, fund, fundOf, form, navigated, alerts, lastResult>>

\* handleSubmit after its await, the call having succeeded.
Resolve ==
  /\ pending # <<>>
  /\ pending' = Tail(pending)
  /\ lastResult' = "resolved"
  /\ navigated' = TRUE
  /\ loading' = FALSE
  /\ UNCHANGED <<mode, fundId, query, fund, fundOf, form, errors, nSubmits, nCalls, alerts>>

\* The failure path issuing the call again by itself.
RejectRetrying ==
  /\ pending # <<>>
  /\ pending' = Append(Tail(pending), Head(pending))
  /\ nCalls' = nCalls + 1
  /\ lastResult' = "rejected"
  /\ alerts' = alerts + 1
  /\ UNCHANGED <<mode, fundId, query, fund, fundOf, form, errors, loading,
                 nSubmits, navigated>>

\* The failure path without its finally block.
RejectKeepingLoading ==
  /\ pending # <<>>
  /\ pending' = Tail(pending)
  /\ lastResult' = "rejected"
  /\ alerts' = alerts + 1
  /\ UNCHANGED <<mode, fundId, query, fund, fundOf, form, errors, loading,
                 nSubmits, nCalls, navigated>>

\* The failure path resetting the form.
RejectResettingForm ==
  /\ pending # <<>>
  /\ pending' = Tail(pending)
  /\ lastResult' = "rejected"
  /\ alerts' = alerts + 1
  /\ loading' = FALSE
  /\ form' = EmptyForm
  /\ UNCHANGED <<mode, fundId, query, fund, fundOf, errors, nSubmits, nCalls, navigated>>

\* handleSubmit after its await, the call having failed.
Reject ==
  /\ pending # <<>>
  /\ pending' = Tail(pending)
  /\ lastResult' = "rejected"
  /\ alerts' = alerts + 1
  /\ loading' = FALSE
  /\ UNCHANGED <<mode, fundId, query, fund, fundOf, form, errors, nSubmits, nCalls, navigated>>

\* The events of one page instance, from its mount on an empty query cache to
\* the navigation away.
Next ==
  \/ FetchSuccess
  \/ FetchError
  \/ handleChange
  \/ handleSubmit
  \/ Resolve
  \/ Reject

Spec == Init /\ [][Next]_vars

\* The events of a session in which edit pages are opened one after another,
\* for the same or for different identifiers, over one query cache.
NavNext ==
  \/ MountEditPage
  \/ Next

NavSpec == Init /\ [][NavNext]_vars

----------------------------------------------------------------------------
(* Reference definitions the properties are stated with *)

\* A step that is a submit event.
SubmitStep == nSubmits' = nSubmits + 1

\* A step that starts an API call.
CallStep == nCalls' = nCalls + 1

\* A step in which an outstanding call is rejected.
RejectStep == Len(pending') < Len(pending) /\ lastResult' = "rejected"

\* The call a CallStep has started.
NewCall == pending'[Len(pending')]

\* s is made of exactly four decimal digits.
IsFourDigitString(s) == Len(s) = 4 /\ \A i \in DOMAIN s : s[i] \in Digits

\* The integer a string of decimal digits denotes.
RECURSIVE DecimalValue(_)
DecimalValue(s) ==
  IF s = <<>> THEN 0
  ELSE DecimalValue(SubSeq(s, 1, Len(s) - 1)) * 10
       + (CHOOSE d \in 0..9 : DigitChar(d) = s[Len(s)])

\* s has neither leading nor trailing white space.
IsTrimmed(s) == s = <<>> \/ (s[1] # " " /\ s[Len(s)] # " ")

\* s without its leading and trailing white space: the one trimmed infix of s
\* that everything outside of is white space.
Trimmed(s) ==
  IF \A i \in DOMAIN s : s[i] = " " THEN <<>>
  ELSE LET lo == CHOOSE i \in DOMAIN s :
                   s[i] # " " /\ \A j \in 1..(i - 1) : s[j] = " "
           hi == CHOOSE i \in DOMAIN s :
                   s[i] # " " /\ \A j \in (i + 1)..Len(s) : s[j] = " "
       IN SubSeq(s, lo, hi)

\* A text field is unedited when it is empty after trimming.
Unedited(fm, f) == Trimmed(fm[f]) = <<>>

\* The value of a text field the rules apply to: the local value, or in the
\* edit flow the remote value when the field is unedited.
RefTextValue(md, fm, fnd, f) ==
  IF md = "edit" /\ Unedited(fm, f) THEN fnd[1][f] ELSE fm[f]

\* The vintage year as written, after the same fallback.
RefYearValue(md, fm, fnd) ==
  IF md = "edit" /\ Unedited(fm, "vintage_year")
  THEN natToString(fnd[1].vintage_year.val)
  ELSE fm.vintage_year

\* The rules of section 4.1: a text field is required; the vintage year is
\* required, made of exactly four decimal digits, and in the edit flow at
\* least 1900.
RefViolates(md, fm, fnd, f) ==
  IF f = "vintage_year"
  THEN LET v == RefYearValue(md, fm, fnd)
       IN \/ Trimmed(v) = <<>>
          \/ ~IsFourDigitString(v)
          \/ (md = "edit" /\ DecimalValue(v) < 1900)
  ELSE Trimmed(RefTextValue(md, fm, fnd, f)) = <<>>

\* The reference merge of the edit flow.
RefMerge(fm, r) ==
  [name |-> IF Unedited(fm, "name") THEN r.name ELSE Trimmed(fm.name),
   gp_name |-> IF Unedited(fm, "gp_name") THEN r.gp_name ELSE Trimmed(fm.gp_name),
   fund_type |->
     IF Unedited(fm, "fund_type") THEN r.fund_type ELSE Trimmed(fm.fund_type),
   vintage_year |->
     IF Unedited(fm, "vintage_year") THEN r.vintage_year
     ELSE Num(DecimalValue(Trimmed(fm.vintage_year)))]

----------------------------------------------------------------------------
(* Properties *)

\* C1: a submit event whose validation pass produces at least one error makes
\* no create/update call, leaves the loading flag false and does not navigate.
C1_InvalidSubmitMakesNoCall ==
  [][(SubmitStep /\ DOMAIN errors' # {}) =>
       /\ nCalls' = nCalls /\ pending' = pending
       /\ ~loading /\ ~loading'
       /\ ~navigated /\ ~navigated']_vars

C1_Witness ==
  /\ nSubmits = 1 /\ DOMAIN errors # {}
  /\ nCalls = 0 /\ pending = <<>> /\ ~loading /\ ~navigated

\* C2: at most one create/update call of a form instance is outstanding at
\* any time.
C2_AtMostOneOutstanding == Len(pending) <= 1

C2_Witness == nSubmits = 2 /\ nCalls = 2 /\ Len(pending) = 1 /\ loading

\* C3: in the create flow a submit event on a form that passes validation
\* starts exactly one create call whose name, gp_name and fund_type are the
\* trimmed form values and whose vintage_year is the integer of the form
\* value; the page navigates only after the call has succeeded.
C3_CreatePayloadTrimmed ==
  [][/\ (mode = "create" /\ SubmitStep /\ DOMAIN errors' = {}) =>
          /\ CallStep
          /\ pending' = <<[op |-> "create",
                           payload |->
                             [name |-> Trimmed(form.name),
                              gp_name |-> Trimmed(form.gp_name),
                              fund_type |-> Trimmed(form.fund_type),
                              vintage_year |->
                                Num(DecimalValue(form.vintage_year))]]>>
     /\ (navigated' /\ ~navigated) => lastResult' = "resolved"]_vars

\* C4: in the edit flow every value placed in the update payload is the value
\* the validation pass checked for that field.
C4_PayloadIsValidatedValue ==
  [][(mode = "edit" /\ CallStep) =>
       LET checked == EditFinal(form, fund)
           sent == NewCall.payload
       IN /\ sent.name = checked.name
          /\ sent.gp_name = checked.gp_name
          /\ sent.fund_type = checked.fund_type
          /\ sent.vintage_year = parseInt(checked.vintage_year)]_vars

\* C5: in the edit flow the payload of every update call is the reference
\* merge: the trimmed local value of a field if it is not empty, else the
\* remote record's value; the vintage year as an integer.
C5_UpdatePayloadIsMerge ==
  [][(mode = "edit" /\ CallStep) =>
       /\ NewCall.op = "update"
       /\ NewCall.payload = RefMerge(form, fund[1])]_vars

C5_Witness ==
  /\ mode = "edit" /\ Len(pending) = 1
  /\ form = [name |-> <<>>, gp_name |-> <<"A">>, fund_type |-> <<>>,
             vintage_year |-> <<>>]
  /\ pending[1].payload = [name |-> <<"R">>, gp_name |-> <<"A">>,
                           fund_type |-> <<"V">>, vintage_year |-> Num(2020)]

\* C6: in both flows a vintage year that is not made of exactly four decimal
\* digits fails validation with a vintage_year error, and no API call is made.
C6_NonFourDigitYearRejected ==
  [][(SubmitStep /\ ~IsFourDigitString(RefYearValue(mode, form, fund))) =>
       ("vintage_year" \in DOMAIN errors' /\ ~CallStep)]_vars

\* C7: in the edit flow a four-digit vintage year fails validation exactly
\* when it is below 1900, with the "greater than 1900" message; in the create
\* flow every four-digit vintage year passes.
C7_YearBoundary ==
  [][(SubmitStep /\ IsFourDigitString(RefYearValue(mode, form, fund))) =>
       LET y == DecimalValue(RefYearValue(mode, form, fund))
       IN IF mode = "edit" /\ y < 1900
          THEN /\ "vintage_year" \in DOMAIN errors'
               /\ errors'.vintage_year = "Vintage Year must be greater than 1900."
          ELSE "vintage_year" \notin DOMAIN errors']_vars

C7_Witness ==
  /\ mode = "edit" /\ nSubmits = 2 /\ nCalls = 1
  /\ form.vintage_year = <<"1", "8", "9", "9">>
  /\ "vintage_year" \in DOMAIN errors
  /\ errors.vintage_year = "Vintage Year must be greater than 1900."

\* C8: the ErrorState a validation pass produces has a key for a field exactly
\* when that field, after fallback, violates its rule.
C8_ErrorsExactlyViolations ==
  [][SubmitStep =>
       \A f \in Fields :
         f \in DOMAIN errors' <=> RefViolates(mode, form, fund, f)]_vars

\* C9: when a call is rejected the form state is unchanged, a failure
\* notification is shown, the page does not navigate and the loading flag is
\* false again.
C9_RejectKeepsForm ==
  [][RejectStep =>
       /\ form' = form
       /\ alerts' = alerts + 1
       /\ ~navigated /\ ~navigated'
       /\ ~loading' /\ SubmitEnabled']_vars

C9_Witness ==
  /\ lastResult = "rejected" /\ alerts = 1 /\ ~navigated
  /\ nSubmits = 2 /\ nCalls = 2 /\ Len(pending) = 1
  /\ pending[1] = apiCall(mode, form, fund)

C11_UpdateFieldFrame ==
  [][(form' # form /\ ~MountEditPage) =>
       /\ \E f \in Fields :
            /\ form'[f] \in InputsOf(f)
            /\ \A g \in Fields \ {f} : form'[g] = form[g]
       /\ errors' = errors
       /\ loading' = loading
       /\ pending' = pending /\ nCalls' = nCalls /\ nSubmits' = nSubmits]_vars

C11_Witness ==
  /\ loading /\ Len(pending) = 1
  /\ pending[1].payload.name = <<"A">>
  /\ form.name = <<" ", "A", " ">>
  /\ form.gp_name # <<>> /\ form.fund_type # <<>>
  /\ DOMAIN errors = {}

\* The fields a validation pass of the mounted page rejects, as a function of
\* the form state and the remote record alone: the rules of section 4.1, the
\* edit flow testing the vintage year after trimming it.
PassKeys(md, fm, fnd) ==
  { f \in Fields :
      IF f = "vintage_year"
      THEN LET v == IF md = "edit" THEN Trimmed(RefYearValue(md, fm, fnd))
                    ELSE RefYearValue(md, fm, fnd)
           IN \/ Trimmed(v) = <<>>
              \/ ~IsFourDigitString(v)
              \/ (md = "edit" /\ DecimalValue(v) < 1900)
      ELSE Trimmed(RefTextValue(md, fm, fnd, f)) = <<>> }

\* C12: every validation pass replaces the ErrorState wholesale: after a
\* submit attempt it is a function of the form state and the remote record of
\* that attempt, whatever it held before, so that a second pass on an
\* unchanged form state yields the same ErrorState.
C12_ErrorsReplacedWholesale ==
  [][SubmitStep =>
       /\ DOMAIN errors' = PassKeys(mode, form, fund)
       /\ errors' = validate(mode, form, fund)]_vars

C12_Witness ==
  /\ nSubmits = 2 /\ nCalls = 1 /\ Len(pending) = 1 /\ alerts = 0
  /\ DOMAIN errors = {}

\* A step in which an outstanding call settles.
SettleStep == Len(pending') < Len(pending)

\* C13: when the API call of a submission settles, by success or by failure,
\* the form leaves the submitting state and is idle; a call is started only by
\* a submit event, so the calls made never outnumber the submit events and no
\* call is retried after a failure.
C13_SettlesToIdleNoRetry ==
  /\ [](nCalls <= nSubmits)
  /\ [][/\ CallStep => SubmitStep
        /\ SettleStep =>
             /\ lastResult' \in {"resolved", "rejected"}
             /\ ~loading' /\ pending' = <<>>
             /\ nCalls' = nCalls /\ nSubmits' = nSubmits]_vars

C13_Witness ==
  /\ nSubmits = 2 /\ nCalls = 2 /\ alerts = 2
  /\ pending = <<>> /\ ~loading /\ ~navigated

\* C14: in the edit flow, while the record of the page's identifier has not
\* been fetched or the query has failed, the form is not rendered; a submit
\* event occurs and an update call is made only in a state where the record of
\* the page's identifier has been fetched.
C14_NoUpdateBeforeFetch ==
  /\ [](mode = "edit" /\ (fund = <<>> \/ fundOf # fundId \/ isError)
          => ~FormRendered)
  /\ [][(mode = "edit" /\ (SubmitStep \/ CallStep)) =>
          (fund # <<>> /\ fundOf = fundId /\ ~isError)]_vars

\* C16: the remote record used as the fallback of validation and of the update
\* payload is the record fetched for the identifier passed to update.
C16_FallbackOfSameIdentifier ==
  [][(mode = "edit" /\ CallStep /\ \E f \in Fields : Unedited(form, f)) =>
       fundOf = NewCall.id]_vars

\* A remote record that offers no fallback: every field empty.
EmptyRemote ==
  [name |-> <<>>, gp_name |-> <<>>, fund_type |-> <<>>, vintage_year |-> Num(0)]

\* C15: for every form state whose vintage year is not a four-digit year below
\* 1900, the validation of the create flow and the validation of the edit flow
\* without usable fallback produce the same ErrorState.
C15_CreateEditSameRules ==
  LET y == Trimmed(form.vintage_year)
  IN ~(IsFourDigitString(y) /\ DecimalValue(y) < 1900) =>
       NewValidate(form) = EditValidate(form, <<EmptyRemote>>)

\* C17: every payload passed to create or update is well formed: name, gp_name
\* and fund_type are defined and not empty after trimming, vintage_year is an
\* integer in 0..9999 for create and in 1900..9999 for update.
C17_PayloadWellFormed ==
  \A i \in DOMAIN pending :
    LET p == pending[i].payload
    IN /\ \A f \in Fields \ {"vintage_year"} :
            p[f] # Undefined /\ Trimmed(p[f]) # <<>>
       /\ p.vintage_year.tag = "int"
       /\ p.vintage_year.val \in
            (IF pending[i].op = "create" THEN 0..9999 ELSE 1900..9999)

C17_Witness ==
  /\ Len(pending) = 1 /\ pending[1].op = "update"
  /\ pending[1].payload.vintage_year = Num(1900)
  /\ pending[1].payload.fund_type = <<"A">>
  /\ form.name = <<" ">>

\* C18: the loading flag is true exactly while a create/update call started by
\* the form instance has not settled.
C18_LoadingIffOutstanding == loading <=> pending # <<>>

C18_Witness ==
  /\ loading /\ Len(pending) = 1 /\ alerts = 1 /\ nSubmits = 2 /\ nCalls = 2
  /\ lastResult = "rejected"

====
